---- MODULE Spec2Model ----
(***************************************************************************)
(* percona-agent: the retry/backoff policy (pct.Backoff), the MySQL        *)
(* restart monitor (mrms/monitor.Monitor) and the MySQL metrics collector  *)
(* (mysql.Monitor) as state machines.                                      *)
(*                                                                         *)
(* Time is counted in whole seconds.  time.Now() carries a monotonic       *)
(* reading, so the clock never runs backwards; NewBackoff sets NowFunc to  *)
(* time.Now, so both clock reads of Success() see the same clock.          *)
(***************************************************************************)
EXTENDS Integers, Sequences, FiniteSets, TLC

(***************************************************************************)
(* Bounds of the model.                                                    *)
(***************************************************************************)
\* The clock runs from 1 to MaxTime seconds.
MaxTime == 8
\* Wait() calls are counted up to MaxWaitCalls; the count saturates there.
MaxWaitCalls == 9
\* Add() hands out at most MaxHandles subscriber channels, 1..MaxHandles.
MaxHandles == 2
\* The uptime a target reports is within 0..MaxUptime.
MaxUptime == 1
\* Buffer size of a subscriber's channel.
SubChanCap == 1
\* Buffer size of the global channel in the model; the program's is
\* GlobalChanSize.
GlobalChanCap == 1
\* The collector is started at most MaxStarts times.
MaxStarts == 1
\* Opening and pinging the connection fails at most MaxFailures times.
MaxFailures == 1
\* Buffer size of a collection channel handed to the collector's Start.
CollChanCap == 1

(***************************************************************************)
(* Program constants.                                                      *)
(***************************************************************************)
\* The zero time.Time, the value of lastSuccess before any success.
ZeroTime == 0
\* resetAfter as the collector constructs its Backoff (5 * time.Second).
ResetAfter == 5
\* The attempt number at which Wait() stops doubling and stops counting.
MaxTry == 7
\* globalChan: make(chan string, 100).
GlobalChanSize == 100
\* No handle: the nil channel Add() returns with an error.
NoHandle == 0
\* No stored fingerprint: the record was not polled yet.
NoUptime == -1
\* The fingerprint could not be read.
ReadError == -2
\* connectedChan: make(chan bool, 1).
ConnectedChanSize == 1

\* The targets (DSNs) the callers of the Monitor know.
DSNs == {"dsnA", "dsnB"}
\* The subscriber channels Add() can make.
Handles == 1..MaxHandles

VARIABLES
    try,          \* Backoff.try
    lastSuccess,  \* Backoff.lastSuccess, ZeroTime when never set
    now,          \* the clock read by time.Now() and b.NowFunc()
    lastWait,     \* seconds returned by the most recent Wait(), -1 before any
    waitCalls,    \* number of Wait() calls so far, saturating at MaxWaitCalls
    mysqlInstances, \* keys of Monitor.mysqlInstances
    subscribers,  \* per target, the channels of its record's Subscribers
    globalSubs,   \* targets whose Subscribers send to the global channel
    lastUptime,   \* per target, the fingerprint its record stores
    openConn,     \* per target, whether a connection opened for it is open
    chanLen,      \* per subscriber channel, the notifications buffered in it
    globalChan,   \* Monitor.globalChan: the targets buffered in it
    nextHandle,   \* the next channel Add() makes
    op,           \* the Backoff operation that took the last step
    ret,          \* channel and error returned by the last Monitor call
    runPc,        \* where the goroutine of Monitor.run stands
    timer,        \* whether the time.After channel of run's select is ready
    status,       \* Monitor.status: the value stored under MONITOR_NAME
    stopChan,     \* Monitor.sync: whether a stop signal is buffered
    doneChan,     \* Monitor.sync: whether a done signal is buffered
    stopPc,       \* where the caller of Monitor.Stop stands
    reported,     \* what the most recent Monitor.Status() call returned
    logged,       \* whether run's deferred function logged a crash
    config,       \* mysql.Monitor.config, Nil when not running
    tickChan,     \* mysql.Monitor.tickChan
    collectionChan, \* mysql.Monitor.collectionChan
    conn,         \* mysql.Monitor.conn: Nil, an open handle or a closed one
    connected,    \* mysql.Monitor.connected
    connectedChan, \* mysql.Monitor.connectedChan: the values buffered in it
    mysqlStatus,  \* mysql.Monitor.status: the value stored under "mysql"
    mysqlStopChan, \* mysql.Monitor.sync: whether a stop signal is buffered
    mysqlDoneChan, \* mysql.Monitor.sync: whether a done signal is buffered
    runners,      \* goroutines of mysql.Monitor.run, counted per position
    connectors,   \* goroutines of mysql.Monitor.connect, counted per position
    callerPc,     \* where the caller of the collector's Start and Stop stands
    result,       \* the last call of Start or Stop and what it returned
    starts,       \* number of Start calls that started the collector
    failures,     \* number of failed attempts to open and ping
    dbOpen,       \* number of sql.DB handles opened and not closed
    ticks,        \* the tick channels on which a tick is ready
    collLen,      \* per collection channel, the collections buffered in it
    setupErrors,  \* whether connect logged the error of a setup command
    rwWriter,     \* Monitor.RWMutex: whether it is locked for writing
    rwReaders,    \* Monitor.RWMutex: how many hold it for reading
    callPc,       \* the registry call in progress and where it stands
    visiting      \* the targets the pass of Check in progress has yet to visit

backoffVars == <<try, lastSuccess, now, lastWait, waitCalls>>

monitorVars == <<mysqlInstances, subscribers, globalSubs, lastUptime, openConn,
                 chanLen, globalChan, nextHandle, ret>>

runVars == <<runPc, timer, status, stopChan, doneChan, stopPc, reported,
             logged>>

collectorVars == <<config, tickChan, collectionChan, conn, connected,
                   connectedChan, mysqlStatus, mysqlStopChan, mysqlDoneChan,
                   runners, connectors, callerPc, result, starts, failures,
                   dbOpen, ticks, collLen, setupErrors>>

lockVars == <<rwWriter, rwReaders, callPc, visiting>>

vars == <<try, lastSuccess, now, lastWait, waitCalls, mysqlInstances,
          subscribers, globalSubs, lastUptime, openConn, chanLen, globalChan,
          nextHandle, op, ret, runPc, timer, status, stopChan, doneChan,
          stopPc, reported, logged, config, tickChan, collectionChan, conn,
          connected, connectedChan, mysqlStatus, mysqlStopChan, mysqlDoneChan,
          runners, connectors, callerPc, result, starts, failures, dbOpen,
          ticks, collLen, setupErrors, rwWriter, rwReaders, callPc, visiting>>

(***************************************************************************)
(* pct.Backoff                                                             *)
(***************************************************************************)

\* int(90 + (90 * rand.Float64())): rand.Float64() is a float64 in [0, 1).
\* For the two largest values, f = 1 - 2^-52 and f = 1 - 2^-53, the product
\* 90*f rounds to 90 - 2^-46 and the sum 180 - 2^-46 lies halfway between two
\* float64 values and rounds to even, which is 180.0: the result is 180.  For
\* every smaller f the sum is below 180 and truncates to 90..179.
PlateauSeconds == 90..180

\* NewBackoff: try and lastSuccess are the zero values.
BackoffInit ==
    /\ try = 0
    /\ lastSuccess = ZeroTime
    /\ now = 1
    /\ lastWait = -1
    /\ waitCalls = 0

\* Wait() with the "- 1" of the doubling branch left out.
WaitSecondsPowerOnly(n) ==
    IF n = 0 THEN {0}
    ELSE IF n < MaxTry THEN {2^n}
    ELSE PlateauSeconds

\* The seconds Wait() can return when the attempt counter is n.
WaitSeconds(n) ==
    IF n = 0 THEN {0}
    ELSE IF n < MaxTry THEN {2^n - 1}
    ELSE PlateauSeconds

\* Wait() starting over from attempt 0 once the counter is saturated.
WaitTryWrap(n) == IF n < MaxTry THEN n + 1 ELSE 0

\* The attempt counter after Wait() when it was n.
WaitTry(n) == IF n < MaxTry THEN n + 1 ELSE n

CountUp(n) == IF n < MaxWaitCalls THEN n + 1 ELSE n

\* What a call of Wait() does to the Backoff.
WaitCall ==
    /\ \E t \in WaitSeconds(try) : lastWait' = t
    /\ try' = WaitTry(try)
    /\ waitCalls' = CountUp(waitCalls)
    /\ op' = "Wait"
    /\ UNCHANGED <<lastSuccess, now>>

Wait ==
    /\ WaitCall
    /\ UNCHANGED <<monitorVars, runVars, collectorVars, lockVars>>

\* The comparison of Success() with its operator turned around.
ResetDueFlipped(last, t) == last - t < ResetAfter

\* b.lastSuccess.Sub(b.NowFunc()) > b.resetAfter
ResetDue(last, t) == last - t > ResetAfter

\* Success() resetting the counter on the first success too.
SuccessResetsOnFirst ==
    /\ IF lastSuccess = ZeroTime
         THEN /\ lastSuccess' = now
              /\ try' = 0
         ELSE IF ResetDue(lastSuccess, now)
           THEN /\ lastSuccess' = now
                /\ try' = 0
           ELSE UNCHANGED <<lastSuccess, try>>
    /\ op' = "Success"
    /\ UNCHANGED <<now, lastWait, waitCalls>>
    /\ UNCHANGED <<monitorVars, runVars, collectorVars, lockVars>>

\* What a call of Success() does to the Backoff.
SuccessCall ==
    /\ IF lastSuccess = ZeroTime
         THEN /\ lastSuccess' = now
              /\ try' = try
         ELSE IF ResetDue(lastSuccess, now)
           THEN /\ lastSuccess' = now
                /\ try' = 0
           ELSE UNCHANGED <<lastSuccess, try>>
    /\ op' = "Success"
    /\ UNCHANGED <<now, lastWait, waitCalls>>

Success ==
    /\ SuccessCall
    /\ UNCHANGED <<monitorVars, runVars, collectorVars, lockVars>>

\* Time passes between calls.
Tick ==
    /\ now < MaxTime
    /\ now' = now + 1
    /\ op' = "Tick"
    /\ UNCHANGED <<try, lastSuccess, lastWait, waitCalls>>
    /\ UNCHANGED <<monitorVars, runVars, collectorVars, lockVars>>

BackoffNext == Wait \/ Success \/ Tick

(***************************************************************************)
(* mrms/monitor.Monitor                                                    *)
(***************************************************************************)

\* The results of a call that returns no channel and no error.
NoCall == [h |-> NoHandle, err |-> ""]

\* NewMonitor: an empty map and an empty global channel.
MonitorInit ==
    /\ mysqlInstances = {}
    /\ subscribers = [d \in DSNs |-> {}]
    /\ globalSubs = {}
    /\ lastUptime = [d \in DSNs |-> NoUptime]
    /\ openConn = [d \in DSNs |-> FALSE]
    /\ chanLen = [h \in Handles |-> 0]
    /\ globalChan = <<>>
    /\ nextHandle = 1
    /\ ret = NoCall

\* Subscribers.Empty()
Empty(subs) == subs = {}

\* Subscribers.GlobalAdd(channel, t): the error it returns, "" for none.
GlobalAddError(d) ==
    IF Empty(subscribers[d]) THEN "UnknownTargetError" ELSE ""

\* Add(dsn) when the map has no record of dsn and the connection opens, or
\* the map has a record already: the record is kept and a new channel is
\* added to its Subscribers.
AddSubscriber(dsn) ==
    /\ nextHandle <= MaxHandles
    /\ mysqlInstances' = mysqlInstances \cup {dsn}
    /\ subscribers' = [subscribers EXCEPT ![dsn] = @ \cup {nextHandle}]
    /\ openConn' = [openConn EXCEPT ![dsn] = TRUE]
    /\ nextHandle' = nextHandle + 1
    /\ ret' = [h |-> nextHandle, err |-> ""]
    /\ UNCHANGED <<globalSubs, lastUptime, chanLen, globalChan>>

\* Add(dsn) putting the record in the map before looking at the error.
AddFailedKeepsRecord(dsn) ==
    /\ mysqlInstances' = mysqlInstances \cup {dsn}
    /\ ret' = [h |-> NoHandle, err |-> "ConnectError"]
    /\ UNCHANGED <<subscribers, globalSubs, lastUptime, openConn, chanLen,
                   globalChan, nextHandle>>

\* Add(dsn) when createMysqlInstance returns an error.
AddFailed(dsn) ==
    /\ ret' = [h |-> NoHandle, err |-> "ConnectError"]
    /\ UNCHANGED <<mysqlInstances, subscribers, globalSubs, lastUptime,
                   openConn, chanLen, globalChan, nextHandle>>

Add(dsn) ==
    /\ IF dsn \notin mysqlInstances
         THEN \E opened \in BOOLEAN :
                IF opened THEN AddSubscriber(dsn) ELSE AddFailed(dsn)
         ELSE AddSubscriber(dsn)
    /\ UNCHANGED <<backoffVars, op, runVars, collectorVars, lockVars>>

\* GlobalSubscribe: GlobalAdd on the Subscribers of every record, in the
\* map's iteration order, up to the first error.
GlobalSubscribe ==
    /\ LET bad == {d \in mysqlInstances : GlobalAddError(d) # ""}
       IN IF bad = {}
            THEN /\ globalSubs' = globalSubs \cup mysqlInstances
                 /\ ret' = NoCall
            ELSE \E done \in SUBSET (mysqlInstances \ bad) :
                   /\ globalSubs' = globalSubs \cup done
                   /\ ret' = [NoCall EXCEPT !.err = "UnknownTargetError"]
    /\ UNCHANGED <<mysqlInstances, subscribers, lastUptime, openConn, chanLen,
                   globalChan, nextHandle>>
    /\ UNCHANGED <<backoffVars, op, runVars, collectorVars, lockVars>>

\* Remove(dsn, c) leaving the record in the map when its last subscriber
\* goes.
RemoveKeepsRecord(dsn, c) ==
    /\ IF dsn \in mysqlInstances
         THEN /\ subscribers' = [subscribers EXCEPT ![dsn] = @ \ {c}]
              /\ globalSubs' = globalSubs \ {dsn}
         ELSE UNCHANGED <<subscribers, globalSubs>>
    /\ ret' = NoCall
    /\ UNCHANGED <<mysqlInstances, lastUptime, openConn, chanLen, globalChan,
                   nextHandle>>
    /\ UNCHANGED <<backoffVars, op, runVars, collectorVars, lockVars>>

Remove(dsn, c) ==
    /\ IF dsn \in mysqlInstances
         THEN LET left == subscribers[dsn] \ {c}
              IN /\ subscribers' = [subscribers EXCEPT ![dsn] = left]
                 /\ IF Empty(left)
                      THEN /\ mysqlInstances' = mysqlInstances \ {dsn}
                           /\ lastUptime' = [lastUptime EXCEPT ![dsn] = NoUptime]
                      ELSE UNCHANGED <<mysqlInstances, lastUptime>>
                 /\ globalSubs' = globalSubs \ {dsn}
                 /\ ret' = NoCall
         ELSE /\ ret' = NoCall
              /\ UNCHANGED <<mysqlInstances, subscribers, globalSubs,
                             lastUptime>>
    /\ UNCHANGED <<openConn, chanLen, globalChan, nextHandle>>
    /\ UNCHANGED <<backoffVars, op, runVars, collectorVars, lockVars>>

\* The orders in which a range over the map can visit the targets in S.
Orders(S) ==
    {o \in [1..Cardinality(S) -> S] :
        \A i, j \in 1..Cardinality(S) : o[i] = o[j] => i = j}

\* MysqlInstance.CheckIfMysqlRestarted with the fingerprint read as r.
WasRestarted(stored, r) ==
    r # ReadError /\ stored # NoUptime /\ r < stored

\* The fingerprint the record stores after reading r.
StoredAfter(stored, r) == IF r = ReadError THEN stored ELSE r

\* Subscribers.Notify on one subscriber channel holding n notifications:
\* a send that is dropped when the buffer is full.
NotifyChan(n) == IF n < SubChanCap THEN n + 1 ELSE n

\* Subscribers.Notify on the global channel q for target d.
NotifyGlobal(q, d) == IF Len(q) < GlobalChanCap THEN Append(q, d) ELSE q

\* The global channel after the targets of `order` were notified in that
\* order.
RECURSIVE GlobalSend(_, _)
GlobalSend(q, order) ==
    IF Len(order) = 0 THEN q
    ELSE GlobalSend(NotifyGlobal(q, Head(order)), Tail(order))

\* The fingerprints one pass can read: one reading for every target in the
\* map.
Readings == [mysqlInstances -> (0..MaxUptime) \cup {ReadError}]

\* The loop of Check leaving at the first error instead of going on: an
\* unreadable target, visited first, ends the pass.
PolledUntilError(r) ==
    IF \E d \in mysqlInstances : r[d] = ReadError THEN {} ELSE mysqlInstances

\* The targets one pass visits: the range over the map goes on to the next
\* target after an error.
Polled(r) == mysqlInstances

\* The test of wasRestarted turned around.
ShouldNotifyNegated(stored, r) ==
    r # ReadError /\ ~WasRestarted(stored, r)

\* Notifying after every successful read.
ShouldNotifyAlways(stored, r) == r # ReadError

\* Whether Check calls Subscribers.Notify for a target: not after an error,
\* and only when wasRestarted.
ShouldNotify(stored, r) ==
    r # ReadError /\ WasRestarted(stored, r)

\* Notify reaching one subscriber channel of each target only.
NotifiedHandlesOne(restarted) ==
    {h \in Handles : \E d \in restarted :
        h \in subscribers[d] /\ \A g \in subscribers[d] : h <= g}

\* The subscriber channels Subscribers.Notify sends to when the targets in
\* `restarted` were found restarted.
NotifiedHandles(restarted) == UNION {subscribers[d] : d \in restarted}

\* A pass whose sends wait for room in the subscriber's channel.
CheckPassBlocking(r) ==
    LET restarted ==
          {d \in Polled(r) : ShouldNotify(lastUptime[d], r[d])}
    IN /\ \A h \in NotifiedHandles(restarted) : chanLen[h] < SubChanCap
       /\ Len(globalChan) + Cardinality(restarted \cap globalSubs)
             <= GlobalChanCap
       /\ lastUptime' =
            [d \in DSNs |-> IF d \in Polled(r)
                              THEN StoredAfter(lastUptime[d], r[d])
                              ELSE lastUptime[d]]
       /\ chanLen' =
            [h \in Handles |->
               IF h \in NotifiedHandles(restarted)
                 THEN NotifyChan(chanLen[h]) ELSE chanLen[h]]
       /\ \E order \in Orders(restarted \cap globalSubs) :
            globalChan' = GlobalSend(globalChan, order)
       /\ ret' = NoCall
       /\ UNCHANGED <<mysqlInstances, subscribers, globalSubs, openConn,
                      nextHandle>>

\* One pass of Check over the map under the read lock, with the fingerprints
\* read as r: the targets found restarted are notified in the order the
\* range over the map visits them.
CheckPass(r) ==
    LET restarted ==
          {d \in Polled(r) : ShouldNotify(lastUptime[d], r[d])}
    IN /\ lastUptime' =
            [d \in DSNs |-> IF d \in Polled(r)
                              THEN StoredAfter(lastUptime[d], r[d])
                              ELSE lastUptime[d]]
       /\ chanLen' =
            [h \in Handles |->
               IF h \in NotifiedHandles(restarted)
                 THEN NotifyChan(chanLen[h]) ELSE chanLen[h]]
       /\ \E order \in Orders(restarted \cap globalSubs) :
            globalChan' = GlobalSend(globalChan, order)
       /\ ret' = NoCall
       /\ UNCHANGED <<mysqlInstances, subscribers, globalSubs, openConn,
                      nextHandle>>

\* Check called on its own.
Check ==
    /\ \E r \in Readings : CheckPass(r)
    /\ UNCHANGED <<backoffVars, op, runVars, collectorVars, lockVars>>

\* A subscriber receives from its channel.
Recv(h) ==
    /\ chanLen[h] > 0
    /\ chanLen' = [chanLen EXCEPT ![h] = @ - 1]
    /\ ret' = NoCall
    /\ UNCHANGED <<mysqlInstances, subscribers, globalSubs, lastUptime,
                   openConn, globalChan, nextHandle>>
    /\ UNCHANGED <<backoffVars, op, runVars, collectorVars, lockVars>>

\* The instance manager receives from the global channel.
GlobalRecv ==
    /\ Len(globalChan) > 0
    /\ globalChan' = Tail(globalChan)
    /\ ret' = NoCall
    /\ UNCHANGED <<mysqlInstances, subscribers, globalSubs, lastUptime,
                   openConn, chanLen, nextHandle>>
    /\ UNCHANGED <<backoffVars, op, runVars, collectorVars, lockVars>>

MonitorNext ==
    \/ \E dsn \in DSNs : Add(dsn)
    \/ \E dsn \in DSNs, c \in 1..(nextHandle - 1) : Remove(dsn, c)
    \/ GlobalSubscribe
    \/ Check
    \/ \E h \in Handles : Recv(h)
    \/ GlobalRecv

(***************************************************************************)
(* The registry calls and Check step by step, with the Monitor's RWMutex.  *)
(* One thread makes the registry calls, one makes the passes of Check.     *)
(***************************************************************************)

\* No registry call is in progress.
NoOp == [op |-> "none", at |-> "idle", dsn |-> "none", c |-> NoHandle]

LockInit ==
    /\ rwWriter = FALSE
    /\ rwReaders = 0
    /\ callPc = NoOp
    /\ visiting = {}

\* The frame of a step of a registry call or of Check.
OnlyRegistry == UNCHANGED <<backoffVars, op, runVars, collectorVars>>

\* A call that goes on without waiting for the mutex.
LockNoWait(o, dsn, c) ==
    /\ callPc = NoOp
    /\ rwWriter' = TRUE
    /\ callPc' = [op |-> o, at |-> "body", dsn |-> dsn, c |-> c]
    /\ UNCHANGED <<rwReaders, visiting, monitorVars>>
    /\ OnlyRegistry

\* m.Lock() at the start of call o (Add, Remove or GlobalSubscribe): taken
\* when nobody holds the mutex, for writing or for reading.
Lock(o, dsn, c) ==
    /\ callPc = NoOp
    /\ ~rwWriter
    /\ rwReaders = 0
    /\ rwWriter' = TRUE
    /\ callPc' = [op |-> o, at |-> "body", dsn |-> dsn, c |-> c]
    /\ UNCHANGED <<rwReaders, visiting, monitorVars>>
    /\ OnlyRegistry

\* Add: the lookup in the map; createMysqlInstance and the insertion of the
\* record when the target is new; return of the error when that fails.
AddLookup ==
    /\ callPc.op = "Add"
    /\ callPc.at = "body"
    /\ IF callPc.dsn \in mysqlInstances
         THEN /\ callPc' = [callPc EXCEPT !.at = "subscribe"]
              /\ UNCHANGED <<mysqlInstances, openConn, ret>>
         ELSE \E opened \in BOOLEAN :
                IF opened
                  THEN /\ mysqlInstances' = mysqlInstances \cup {callPc.dsn}
                       /\ openConn' = [openConn EXCEPT ![callPc.dsn] = TRUE]
                       /\ callPc' = [callPc EXCEPT !.at = "subscribe"]
                       /\ UNCHANGED ret
                  ELSE /\ ret' = [h |-> NoHandle, err |-> "ConnectError"]
                       /\ callPc' = [callPc EXCEPT !.at = "unlock"]
                       /\ UNCHANGED <<mysqlInstances, openConn>>
    /\ UNCHANGED <<subscribers, globalSubs, lastUptime, chanLen, globalChan,
                   nextHandle, rwWriter, rwReaders, visiting>>
    /\ OnlyRegistry

\* Add: c = mysqlInstance.Subscribers.Add().
AddSubscribe ==
    /\ callPc.op = "Add"
    /\ callPc.at = "subscribe"
    /\ subscribers' = [subscribers EXCEPT ![callPc.dsn] = @ \cup {nextHandle}]
    /\ nextHandle' = nextHandle + 1
    /\ ret' = [h |-> nextHandle, err |-> ""]
    /\ callPc' = [callPc EXCEPT !.at = "unlock"]
    /\ UNCHANGED <<mysqlInstances, globalSubs, lastUptime, openConn, chanLen,
                   globalChan, rwWriter, rwReaders, visiting>>
    /\ OnlyRegistry

\* Remove: the lookup and mysqlInstance.Subscribers.Remove(c).
RemoveHandle ==
    /\ callPc.op = "Remove"
    /\ callPc.at = "body"
    /\ IF callPc.dsn \in mysqlInstances
         THEN /\ subscribers' =
                   [subscribers EXCEPT ![callPc.dsn] = @ \ {callPc.c}]
              /\ callPc' = [callPc EXCEPT !.at = "evict"]
         ELSE /\ callPc' = [callPc EXCEPT !.at = "unlock"]
              /\ UNCHANGED subscribers
    /\ ret' = NoCall
    /\ UNCHANGED <<mysqlInstances, globalSubs, lastUptime, openConn, chanLen,
                   globalChan, nextHandle, rwWriter, rwReaders, visiting>>
    /\ OnlyRegistry

\* Remove: if mysqlInstance.Subscribers.Empty() { delete(...) }.
RemoveEvict ==
    /\ callPc.op = "Remove"
    /\ callPc.at = "evict"
    /\ IF Empty(subscribers[callPc.dsn])
         THEN /\ mysqlInstances' = mysqlInstances \ {callPc.dsn}
              /\ lastUptime' = [lastUptime EXCEPT ![callPc.dsn] = NoUptime]
         ELSE UNCHANGED <<mysqlInstances, lastUptime>>
    /\ callPc' = [callPc EXCEPT !.at = "globalremove"]
    /\ UNCHANGED <<subscribers, globalSubs, openConn, chanLen, globalChan,
                   nextHandle, ret, rwWriter, rwReaders, visiting>>
    /\ OnlyRegistry

\* Remove: mysqlInstance.Subscribers.GlobalRemove(dsn).
RemoveGlobal ==
    /\ callPc.op = "Remove"
    /\ callPc.at = "globalremove"
    /\ globalSubs' = globalSubs \ {callPc.dsn}
    /\ callPc' = [callPc EXCEPT !.at = "unlock"]
    /\ UNCHANGED <<mysqlInstances, subscribers, lastUptime, openConn, chanLen,
                   globalChan, nextHandle, ret, rwWriter, rwReaders, visiting>>
    /\ OnlyRegistry

\* GlobalSubscribe: the loop of GlobalAdd over the records, up to the first
\* error.
GlobalSubscribeLoop ==
    /\ callPc.op = "GlobalSubscribe"
    /\ callPc.at = "body"
    /\ LET bad == {d \in mysqlInstances : GlobalAddError(d) # ""}
       IN IF bad = {}
            THEN /\ globalSubs' = globalSubs \cup mysqlInstances
                 /\ ret' = NoCall
            ELSE \E done \in SUBSET (mysqlInstances \ bad) :
                   /\ globalSubs' = globalSubs \cup done
                   /\ ret' = [NoCall EXCEPT !.err = "UnknownTargetError"]
    /\ callPc' = [callPc EXCEPT !.at = "unlock"]
    /\ UNCHANGED <<mysqlInstances, subscribers, lastUptime, openConn, chanLen,
                   globalChan, nextHandle, rwWriter, rwReaders, visiting>>
    /\ OnlyRegistry

\* defer m.Unlock(): the call returns.
Unlock ==
    /\ callPc.at = "unlock"
    /\ rwWriter' = FALSE
    /\ callPc' = NoOp
    /\ UNCHANGED <<rwReaders, visiting, monitorVars>>
    /\ OnlyRegistry

\* Check: m.RLock(), taken when nobody holds the mutex for writing; the
\* range over the map starts.
RLock ==
    /\ rwReaders = 0
    /\ ~rwWriter
    /\ rwReaders' = 1
    /\ visiting' = mysqlInstances
    /\ UNCHANGED <<rwWriter, callPc, monitorVars>>
    /\ OnlyRegistry

\* Check: one iteration of the range over the map, for target d with the
\* fingerprint read as u.
CheckVisit(d, u) ==
    /\ rwReaders > 0
    /\ d \in visiting
    /\ visiting' = visiting \ {d}
    /\ lastUptime' = [lastUptime EXCEPT ![d] = StoredAfter(@, u)]
    /\ LET notify == ShouldNotify(lastUptime[d], u)
       IN /\ chanLen' =
               [h \in Handles |->
                  IF notify /\ h \in subscribers[d]
                    THEN NotifyChan(chanLen[h]) ELSE chanLen[h]]
          /\ globalChan' =
               IF notify /\ d \in globalSubs
                 THEN NotifyGlobal(globalChan, d) ELSE globalChan
    /\ UNCHANGED <<mysqlInstances, subscribers, globalSubs, openConn,
                   nextHandle, ret, rwWriter, rwReaders, callPc>>
    /\ OnlyRegistry

\* Check: defer m.RUnlock(), after the last iteration.
RUnlock ==
    /\ rwReaders > 0
    /\ visiting = {}
    /\ rwReaders' = rwReaders - 1
    /\ UNCHANGED <<rwWriter, callPc, visiting, monitorVars>>
    /\ OnlyRegistry

LockedNext ==
    \/ \E dsn \in DSNs : nextHandle <= MaxHandles /\ Lock("Add", dsn, NoHandle)
    \/ \E dsn \in DSNs, c \in 1..(nextHandle - 1) : Lock("Remove", dsn, c)
    \/ Lock("GlobalSubscribe", "none", NoHandle)
    \/ AddLookup
    \/ AddSubscribe
    \/ RemoveHandle
    \/ RemoveEvict
    \/ RemoveGlobal
    \/ GlobalSubscribeLoop
    \/ Unlock
    \/ RLock
    \/ \E d \in DSNs, u \in (0..MaxUptime) \cup {ReadError} : CheckVisit(d, u)
    \/ RUnlock

(***************************************************************************)
(* mrms/monitor.Monitor: Start, Stop, Status and the goroutine of run.     *)
(* One caller starts the Monitor once and calls Stop once; Status() may be *)
(* called at any time.  pct.SyncChan is a pair of buffered channels: Stop()*)
(* and Done() send without waiting for the receiver, Wait() receives.      *)
(***************************************************************************)
\* The values Monitor.run stores as the status.
RunningStates == {"Checking", "Idle"}

RunInit ==
    /\ runPc = "none"
    /\ timer = FALSE
    /\ status = ""
    /\ stopChan = FALSE
    /\ doneChan = FALSE
    /\ stopPc = "none"
    /\ reported = "none"
    /\ logged = FALSE

\* The frame of a step of the lifecycle that leaves the registry alone.
RegistryUnchanged ==
    UNCHANGED <<backoffVars, op, monitorVars, collectorVars, lockVars>>

\* Start: go m.run(interval).
Start ==
    /\ runPc = "none"
    /\ runPc' = "top"
    /\ UNCHANGED <<timer, status, stopChan, doneChan, stopPc, reported,
                   logged>>
    /\ RegistryUnchanged

\* Stop, first half: m.sync.Stop() puts the stop signal on StopChan.
StopCall ==
    /\ stopPc = "none"
    /\ ~stopChan
    /\ stopChan' = TRUE
    /\ stopPc' = "waiting"
    /\ UNCHANGED <<runPc, timer, status, doneChan, reported, logged>>
    /\ RegistryUnchanged

\* Stop returning as soon as the signal is sent.
StopReturnNoWait ==
    /\ stopPc = "waiting"
    /\ stopPc' = "returned"
    /\ UNCHANGED <<runPc, timer, status, stopChan, doneChan, reported,
                   logged>>
    /\ RegistryUnchanged

\* Stop, second half: m.sync.Wait() receives the done signal, Stop returns.
StopReturn ==
    /\ stopPc = "waiting"
    /\ doneChan
    /\ doneChan' = FALSE
    /\ stopPc' = "returned"
    /\ UNCHANGED <<runPc, timer, status, stopChan, reported, logged>>
    /\ RegistryUnchanged

\* Status(): m.status.All().
Status ==
    /\ reported' = status
    /\ UNCHANGED <<runPc, timer, status, stopChan, doneChan, stopPc, logged>>
    /\ RegistryUnchanged

\* run, top of the loop: m.status.Update(MONITOR_NAME, "Checking").
runChecking ==
    /\ runPc = "top"
    /\ status' = "Checking"
    /\ runPc' = "check"
    /\ UNCHANGED <<timer, stopChan, doneChan, stopPc, reported, logged>>
    /\ RegistryUnchanged

\* run: m.Check() reading the fingerprints r.
runCheck(r) ==
    /\ runPc = "check"
    /\ CheckPass(r)
    /\ runPc' = "idle"
    /\ UNCHANGED <<timer, status, stopChan, doneChan, stopPc, reported,
                   logged>>
    /\ UNCHANGED <<backoffVars, op, collectorVars, lockVars>>

\* run: a panic inside m.Check(); the deferred function runs next.
runPanic ==
    /\ runPc = "check"
    /\ runPc' = "panic"
    /\ UNCHANGED <<timer, status, stopChan, doneChan, stopPc, reported,
                   logged>>
    /\ RegistryUnchanged

\* run: m.status.Update(MONITOR_NAME, "Idle") and the select is entered
\* with a new timer.
runIdle ==
    /\ runPc = "idle"
    /\ status' = "Idle"
    /\ timer' = FALSE
    /\ runPc' = "select"
    /\ UNCHANGED <<stopChan, doneChan, stopPc, reported, logged>>
    /\ RegistryUnchanged

\* The interval is over: the channel of time.After(interval) becomes ready.
TimerExpires ==
    /\ runPc = "select"
    /\ ~timer
    /\ timer' = TRUE
    /\ UNCHANGED <<runPc, status, stopChan, doneChan, stopPc, reported,
                   logged>>
    /\ RegistryUnchanged

\* run, select: case <-time.After(interval), the loop goes round.
runSelectTimer ==
    /\ runPc = "select"
    /\ timer
    /\ timer' = FALSE
    /\ runPc' = "top"
    /\ UNCHANGED <<status, stopChan, doneChan, stopPc, reported, logged>>
    /\ RegistryUnchanged

\* The stop case storing the status and going round the loop again.
runSelectStopNoReturn ==
    /\ runPc = "select"
    /\ stopChan
    /\ stopChan' = FALSE
    /\ timer' = FALSE
    /\ status' = "Stopped"
    /\ runPc' = "top"
    /\ UNCHANGED <<doneChan, stopPc, reported, logged>>
    /\ RegistryUnchanged

\* run, select: case <-m.sync.StopChan, return.  When the timer is ready
\* too, select takes either case.
runSelectStop ==
    /\ runPc = "select"
    /\ stopChan
    /\ stopChan' = FALSE
    /\ timer' = FALSE
    /\ runPc' = "return"
    /\ UNCHANGED <<status, doneChan, stopPc, reported, logged>>
    /\ RegistryUnchanged

\* The deferred function without recover(): the panic ends the process.
runDeferredNoRecover ==
    /\ runPc \in {"return", "panic"}
    /\ IF runPc = "panic"
         THEN /\ runPc' = "crashed"
              /\ UNCHANGED <<status, logged>>
         ELSE /\ runPc' = "done"
              /\ status' = "Stopped"
              /\ UNCHANGED logged
    /\ UNCHANGED <<timer, stopChan, doneChan, stopPc, reported>>
    /\ RegistryUnchanged

\* run, deferred function: recover() and log the crash if there was a
\* panic, then m.status.Update(MONITOR_NAME, "Stopped").
runDeferred ==
    /\ runPc \in {"return", "panic"}
    /\ logged' = (logged \/ runPc = "panic")
    /\ status' = "Stopped"
    /\ runPc' = "done"
    /\ UNCHANGED <<timer, stopChan, doneChan, stopPc, reported>>
    /\ RegistryUnchanged

\* run, deferred function: m.sync.Done() puts the done signal on DoneChan;
\* the goroutine ends.
runDone ==
    /\ runPc = "done"
    /\ ~doneChan
    /\ doneChan' = TRUE
    /\ runPc' = "exited"
    /\ UNCHANGED <<timer, status, stopChan, stopPc, reported, logged>>
    /\ RegistryUnchanged

\* The steps of the goroutine of run that it takes by itself.
runStep ==
    \/ runChecking
    \/ \E r \in Readings : runCheck(r)
    \/ runIdle
    \/ runSelectTimer
    \/ runDeferred
    \/ runDone

\* The caller of Add, Start and Stop, the goroutine of run and its timer.
LifecycleNext ==
    \/ \E dsn \in DSNs : Add(dsn)
    \/ Start
    \/ StopCall
    \/ StopReturn
    \/ runStep
    \/ runPanic
    \/ TimerExpires
    \/ runSelectStop

\* The same with callers of Status().
RunNext ==
    \/ LifecycleNext
    \/ Status

(***************************************************************************)
(* mysql.Monitor, the collector: Start and Stop, called from one           *)
(* goroutine, the goroutine of run and the goroutines of connect.          *)
(* Goroutines are counted per position, so that any number of them can be  *)
(* alive.  pct.SyncChan is as for the restart monitor.                     *)
(***************************************************************************)
\* The nil pointer, channel or error.
Nil == "nil"

\* The positions of a goroutine of run.
RunPcs == {"spawn", "select", "send", "nometrics", "return", "done"}

\* The positions of a goroutine of connect; "panic" is the goroutine that
\* dereferenced a nil config, which ends the process.
ConnectPcs == {"start", "test", "wait", "sleep", "open", "success", "status",
               "send", "panic"}

\* The tick channels and collection channels callers hand to Start.
TickChans == {"tickA", "tickB"}
CollChans == {"collA", "collB"}

\* json.Unmarshal of the config bytes: the Config, or Nil when the bytes
\* are not a JSON object.
Unmarshal(bytes) ==
    CASE bytes = "{\"DSN\":\"a\"}" -> "cfgA"
      [] bytes = "{\"DSN\":\"b\"}" -> "cfgB"
      [] OTHER -> Nil

\* The arguments Start is called with.
StartArgs ==
    { [config |-> "{\"DSN\":\"a\"}", tickChan |-> "tickA",
       collectionChan |-> "collA"],
      [config |-> "{\"DSN\":\"b\"}", tickChan |-> "tickB",
       collectionChan |-> "collB"],
      [config |-> "DSN=b", tickChan |-> "tickB", collectionChan |-> "collB"] }

RECURSIVE Total(_, _)
\* The number of goroutines counted in bag at the positions S.
Total(bag, S) ==
    IF S = {} THEN 0
    ELSE LET p == CHOOSE q \in S : TRUE
         IN bag[p] + Total(bag, S \ {p})

\* A goroutine appears at position p, leaves position p, or goes from p
\* to q.
Enter(bag, p) == [bag EXCEPT ![p] = @ + 1]
Leave(bag, p) == [bag EXCEPT ![p] = @ - 1]
Move(bag, p, q) == Enter(Leave(bag, p), q)

\* NewMonitor: no config, no connection, an empty connectedChan.
CollectorInit ==
    /\ config = Nil
    /\ tickChan = Nil
    /\ collectionChan = Nil
    /\ conn = Nil
    /\ connected = FALSE
    /\ connectedChan = <<>>
    /\ mysqlStatus = ""
    /\ mysqlStopChan = FALSE
    /\ mysqlDoneChan = FALSE
    /\ runners = [p \in RunPcs |-> 0]
    /\ connectors = [p \in ConnectPcs |-> 0]
    /\ callerPc = "idle"
    /\ result = <<"none", "none">>
    /\ starts = 0
    /\ failures = 0
    /\ dbOpen = 0
    /\ ticks = {}
    /\ collLen = [c \in CollChans |-> 0]
    /\ setupErrors = FALSE

\* The frame of a step of the collector that makes no Backoff call.
OnlyCollector == UNCHANGED <<backoffVars, op, monitorVars, runVars, lockVars>>

\* Start without the test of m.config.
CollectorStartNoGuard(a) ==
    /\ callerPc = "idle"
    /\ Unmarshal(a.config) = Nil \/ starts < MaxStarts
    /\ IF Unmarshal(a.config) = Nil
         THEN /\ result' = <<"Start", "UnmarshalError">>
              /\ UNCHANGED <<config, tickChan, collectionChan, runners,
                             starts>>
         ELSE /\ config' = Unmarshal(a.config)
              /\ tickChan' = a.tickChan
              /\ collectionChan' = a.collectionChan
              /\ runners' = Enter(runners, "spawn")
              /\ starts' = starts + 1
              /\ result' = <<"Start", Nil>>
    /\ UNCHANGED <<conn, connected, connectedChan, mysqlStatus, mysqlStopChan,
                   mysqlDoneChan, connectors, callerPc, failures, dbOpen,
                   ticks, collLen>>
    /\ OnlyCollector
    /\ UNCHANGED setupErrors

\* Start(config, tickChan, collectionChan): ServiceIsRunningError when there
\* is a config; an error when the bytes do not parse; else the fields are
\* set and the goroutine of run is started.
CollectorStart(a) ==
    /\ callerPc = "idle"
    /\ config # Nil \/ Unmarshal(a.config) = Nil \/ starts < MaxStarts
    /\ IF config # Nil
         THEN /\ result' = <<"Start", "ServiceIsRunningError">>
              /\ UNCHANGED <<config, tickChan, collectionChan, runners,
                             starts>>
         ELSE IF Unmarshal(a.config) = Nil
           THEN /\ result' = <<"Start", "UnmarshalError">>
                /\ UNCHANGED <<config, tickChan, collectionChan, runners,
                               starts>>
           ELSE /\ config' = Unmarshal(a.config)
                /\ tickChan' = a.tickChan
                /\ collectionChan' = a.collectionChan
                /\ runners' = Enter(runners, "spawn")
                /\ starts' = starts + 1
                /\ result' = <<"Start", Nil>>
    /\ UNCHANGED <<conn, connected, connectedChan, mysqlStatus, mysqlStopChan,
                   mysqlDoneChan, connectors, callerPc, failures, dbOpen,
                   ticks, collLen>>
    /\ OnlyCollector
    /\ UNCHANGED setupErrors

\* Stop without the test of m.config.
CollectorStopNoGuard ==
    /\ callerPc = "idle"
    /\ ~mysqlStopChan
    /\ mysqlStatus' = "Stopping"
    /\ mysqlStopChan' = TRUE
    /\ callerPc' = "waiting"
    /\ result' = <<"Stop", "none">>
    /\ UNCHANGED <<config, tickChan, collectionChan, conn, connected,
                   connectedChan, mysqlDoneChan, runners, connectors, starts,
                   failures, dbOpen, ticks, collLen>>
    /\ OnlyCollector
    /\ UNCHANGED setupErrors

\* Stop(): nil at once when there is no config; else the status becomes
\* "Stopping", the stop signal is sent and the caller waits in sync.Wait().
CollectorStop ==
    /\ callerPc = "idle"
    /\ IF config = Nil
         THEN /\ result' = <<"Stop", Nil>>
              /\ UNCHANGED <<mysqlStatus, mysqlStopChan, callerPc>>
         ELSE /\ ~mysqlStopChan
              /\ mysqlStatus' = "Stopping"
              /\ mysqlStopChan' = TRUE
              /\ callerPc' = "waiting"
              /\ result' = <<"Stop", "none">>
    /\ UNCHANGED <<config, tickChan, collectionChan, conn, connected,
                   connectedChan, mysqlDoneChan, runners, connectors, starts,
                   failures, dbOpen, ticks, collLen>>
    /\ OnlyCollector
    /\ UNCHANGED setupErrors

\* Stop(), after sync.Wait() received the done signal: m.config = nil and
\* nil is returned.
CollectorStopReturn ==
    /\ callerPc = "waiting"
    /\ mysqlDoneChan
    /\ mysqlDoneChan' = FALSE
    /\ config' = Nil
    /\ callerPc' = "idle"
    /\ result' = <<"Stop", Nil>>
    /\ UNCHANGED <<tickChan, collectionChan, conn, connected, connectedChan,
                   mysqlStatus, mysqlStopChan, runners, connectors, starts,
                   failures, dbOpen, ticks, collLen>>
    /\ OnlyCollector
    /\ UNCHANGED setupErrors

\* run: go m.connect().
mysqlRunSpawn ==
    /\ runners["spawn"] > 0
    /\ runners' = Move(runners, "spawn", "select")
    /\ connectors' = Enter(connectors, "start")
    /\ UNCHANGED <<config, tickChan, collectionChan, conn, connected,
                   connectedChan, mysqlStatus, mysqlStopChan, mysqlDoneChan,
                   callerPc, result, starts, failures, dbOpen, ticks, collLen>>
    /\ OnlyCollector
    /\ UNCHANGED setupErrors

\* What gathering the metrics over connection c leads to: a collection to
\* send, or none; the queries on a closed connection return errors and add
\* no metric.
GatherOutcomes(c) ==
    IF c = "open" THEN {"send", "nometrics"} ELSE {"nometrics"}

\* The tick case without the test of m.connected: every tick is honoured.
mysqlRunTickAlwaysHonoured ==
    /\ runners["select"] > 0
    /\ tickChan \in ticks
    /\ ticks' = ticks \ {tickChan}
    /\ mysqlStatus' = "Running"
    /\ \E p \in GatherOutcomes(conn) :
         runners' = Move(runners, "select", p)
    /\ UNCHANGED <<config, tickChan, collectionChan, conn, connected,
                   connectedChan, mysqlStopChan, mysqlDoneChan, connectors,
                   callerPc, result, starts, failures, dbOpen, collLen>>
    /\ OnlyCollector
    /\ UNCHANGED setupErrors

\* run, case now := <-m.tickChan: the tick is skipped when not connected;
\* else the status becomes "Running" and the metrics are gathered, some or
\* none.
mysqlRunTick ==
    /\ runners["select"] > 0
    /\ tickChan \in ticks
    /\ ticks' = ticks \ {tickChan}
    /\ IF ~connected
         THEN UNCHANGED <<mysqlStatus, runners>>
         ELSE /\ mysqlStatus' = "Running"
              /\ \E p \in GatherOutcomes(conn) :
                   runners' = Move(runners, "select", p)
    /\ UNCHANGED <<config, tickChan, collectionChan, conn, connected,
                   connectedChan, mysqlStopChan, mysqlDoneChan, connectors,
                   callerPc, result, starts, failures, dbOpen, collLen>>
    /\ OnlyCollector
    /\ UNCHANGED setupErrors

\* run, case m.collectionChan <- c: the collection is sent; status "Ready".
mysqlRunSend ==
    /\ runners["send"] > 0
    /\ collLen[collectionChan] < CollChanCap
    /\ collLen' = [collLen EXCEPT ![collectionChan] = @ + 1]
    /\ mysqlStatus' = "Ready"
    /\ runners' = Move(runners, "send", "select")
    /\ UNCHANGED <<config, tickChan, collectionChan, conn, connected,
                   connectedChan, mysqlStopChan, mysqlDoneChan, connectors,
                   callerPc, result, starts, failures, dbOpen, ticks>>
    /\ OnlyCollector
    /\ UNCHANGED setupErrors

\* A timeout that keeps the collection for another try: the loop stays in
\* the send.
mysqlRunSendTimeoutKeepsCollection ==
    /\ runners["send"] > 0
    /\ mysqlStatus' = "Ready"
    /\ UNCHANGED <<config, tickChan, collectionChan, conn, connected,
                   connectedChan, mysqlStopChan, mysqlDoneChan, connectors,
                   runners, callerPc, result, starts, failures, dbOpen, ticks,
                   collLen>>
    /\ OnlyCollector
    /\ UNCHANGED setupErrors

\* A send with no timeout: the loop leaves the send only when the channel
\* has taken the collection.
mysqlRunSendTimeoutOnlyWithRoom ==
    /\ runners["send"] > 0
    /\ collLen[collectionChan] < CollChanCap
    /\ mysqlStatus' = "Ready"
    /\ runners' = Move(runners, "send", "select")
    /\ UNCHANGED <<config, tickChan, collectionChan, conn, connected,
                   connectedChan, mysqlStopChan, mysqlDoneChan, connectors,
                   callerPc, result, starts, failures, dbOpen, ticks, collLen>>
    /\ OnlyCollector
    /\ UNCHANGED setupErrors

\* run, case <-time.After(500 * time.Millisecond): the collection is lost;
\* status "Ready".
mysqlRunSendTimeout ==
    /\ runners["send"] > 0
    /\ mysqlStatus' = "Ready"
    /\ runners' = Move(runners, "send", "select")
    /\ UNCHANGED <<config, tickChan, collectionChan, conn, connected,
                   connectedChan, mysqlStopChan, mysqlDoneChan, connectors,
                   callerPc, result, starts, failures, dbOpen, ticks, collLen>>
    /\ OnlyCollector
    /\ UNCHANGED setupErrors

\* run, no metrics gathered: nothing is sent; status "Ready".
mysqlRunNoMetrics ==
    /\ runners["nometrics"] > 0
    /\ mysqlStatus' = "Ready"
    /\ runners' = Move(runners, "nometrics", "select")
    /\ UNCHANGED <<config, tickChan, collectionChan, conn, connected,
                   connectedChan, mysqlStopChan, mysqlDoneChan, connectors,
                   callerPc, result, starts, failures, dbOpen, ticks, collLen>>
    /\ OnlyCollector
    /\ UNCHANGED setupErrors

\* run, case connected := <-m.connectedChan: the flag is stored; status
\* "Ready" when connected, else a goroutine of connect is started.
mysqlRunConnected ==
    /\ runners["select"] > 0
    /\ connectedChan # <<>>
    /\ connected' = Head(connectedChan)
    /\ connectedChan' = Tail(connectedChan)
    /\ IF Head(connectedChan)
         THEN /\ mysqlStatus' = "Ready"
              /\ UNCHANGED connectors
         ELSE /\ connectors' = Enter(connectors, "start")
              /\ UNCHANGED mysqlStatus
    /\ UNCHANGED <<config, tickChan, collectionChan, conn, mysqlStopChan,
                   mysqlDoneChan, runners, callerPc, result, starts, failures,
                   dbOpen, ticks, collLen>>
    /\ OnlyCollector
    /\ UNCHANGED setupErrors

\* run, case <-m.sync.StopChan: return.
mysqlRunStop ==
    /\ runners["select"] > 0
    /\ mysqlStopChan
    /\ mysqlStopChan' = FALSE
    /\ runners' = Move(runners, "select", "return")
    /\ UNCHANGED <<config, tickChan, collectionChan, conn, connected,
                   connectedChan, mysqlStatus, mysqlDoneChan, connectors,
                   callerPc, result, starts, failures, dbOpen, ticks, collLen>>
    /\ OnlyCollector
    /\ UNCHANGED setupErrors

\* run, deferred function: m.conn.Close() when there is a connection, then
\* the status becomes "Stopped".
mysqlRunDeferred ==
    /\ runners["return"] > 0
    /\ IF conn = "open"
         THEN /\ conn' = "closed"
              /\ dbOpen' = dbOpen - 1
         ELSE UNCHANGED <<conn, dbOpen>>
    /\ mysqlStatus' = "Stopped"
    /\ runners' = Move(runners, "return", "done")
    /\ UNCHANGED <<config, tickChan, collectionChan, connected, connectedChan,
                   mysqlStopChan, mysqlDoneChan, connectors, callerPc, result,
                   starts, failures, ticks, collLen>>
    /\ OnlyCollector
    /\ UNCHANGED setupErrors

\* run, deferred function: m.sync.Done(); the goroutine ends.
mysqlRunDone ==
    /\ runners["done"] > 0
    /\ ~mysqlDoneChan
    /\ mysqlDoneChan' = TRUE
    /\ runners' = Leave(runners, "done")
    /\ UNCHANGED <<config, tickChan, collectionChan, conn, connected,
                   connectedChan, mysqlStatus, mysqlStopChan, connectors,
                   callerPc, result, starts, failures, dbOpen, ticks, collLen>>
    /\ OnlyCollector
    /\ UNCHANGED setupErrors

\* connect: the previous connection, if any, is closed; m.conn keeps
\* pointing to it.
connectClose ==
    /\ connectors["start"] > 0
    /\ IF conn = "open"
         THEN /\ conn' = "closed"
              /\ dbOpen' = dbOpen - 1
         ELSE UNCHANGED <<conn, dbOpen>>
    /\ connectors' = Move(connectors, "start", "test")
    /\ UNCHANGED <<config, tickChan, collectionChan, connected, connectedChan,
                   mysqlStatus, mysqlStopChan, mysqlDoneChan, runners,
                   callerPc, result, starts, failures, ticks, collLen>>
    /\ OnlyCollector
    /\ UNCHANGED setupErrors

\* connect: for m.conn == nil; the goroutine ends when there is a
\* connection.
connectTest ==
    /\ connectors["test"] > 0
    /\ connectors' = IF conn = Nil THEN Move(connectors, "test", "wait")
                                   ELSE Leave(connectors, "test")
    /\ UNCHANGED <<config, tickChan, collectionChan, conn, connected,
                   connectedChan, mysqlStatus, mysqlStopChan, mysqlDoneChan,
                   runners, callerPc, result, starts, failures, dbOpen, ticks,
                   collLen>>
    /\ OnlyCollector
    /\ UNCHANGED setupErrors

\* An attempt that sleeps without asking the Backoff how long.
connectWaitNoBackoff ==
    /\ connectors["wait"] > 0
    /\ mysqlStatus' = "Connect wait"
    /\ connectors' = Move(connectors, "wait", "sleep")
    /\ UNCHANGED <<config, tickChan, collectionChan, conn, connected,
                   connectedChan, mysqlStopChan, mysqlDoneChan, runners,
                   callerPc, result, starts, failures, dbOpen, ticks, collLen>>
    /\ OnlyCollector
    /\ UNCHANGED setupErrors

\* connect: t := m.backoff.Wait() and the status becomes "Connect wait"
\* followed by t, which is lastWait.
connectWait ==
    /\ connectors["wait"] > 0
    /\ WaitCall
    /\ mysqlStatus' = "Connect wait"
    /\ connectors' = Move(connectors, "wait", "sleep")
    /\ UNCHANGED <<config, tickChan, collectionChan, conn, connected,
                   connectedChan, mysqlStopChan, mysqlDoneChan, runners,
                   callerPc, result, starts, failures, dbOpen, ticks, collLen>>
    /\ UNCHANGED <<monitorVars, runVars, lockVars>>
    /\ UNCHANGED setupErrors

\* connect: time.Sleep(t) is over and the status becomes "Connecting".
connectSleep ==
    /\ connectors["sleep"] > 0
    /\ mysqlStatus' = "Connecting"
    /\ connectors' = Move(connectors, "sleep", "open")
    /\ UNCHANGED <<config, tickChan, collectionChan, conn, connected,
                   connectedChan, mysqlStopChan, mysqlDoneChan, runners,
                   callerPc, result, starts, failures, dbOpen, ticks, collLen>>
    /\ OnlyCollector
    /\ UNCHANGED setupErrors

\* A failed attempt that ends the goroutine of connect.
connectOpenFailsGivesUp ==
    /\ connectors["open"] > 0
    /\ config # Nil
    /\ failures < MaxFailures
    /\ failures' = failures + 1
    /\ connectors' = Leave(connectors, "open")
    /\ UNCHANGED <<config, tickChan, collectionChan, conn, connected,
                   connectedChan, mysqlStatus, mysqlStopChan, mysqlDoneChan,
                   runners, callerPc, result, starts, dbOpen, ticks, collLen>>
    /\ OnlyCollector
    /\ UNCHANGED setupErrors

\* connect: sql.Open fails, or db.Ping fails and the handle is closed;
\* continue.
connectOpenFails ==
    /\ connectors["open"] > 0
    /\ config # Nil
    /\ failures < MaxFailures
    /\ failures' = failures + 1
    /\ connectors' = Move(connectors, "open", "test")
    /\ UNCHANGED <<config, tickChan, collectionChan, conn, connected,
                   connectedChan, mysqlStatus, mysqlStopChan, mysqlDoneChan,
                   runners, callerPc, result, starts, dbOpen, ticks, collLen>>
    /\ OnlyCollector
    /\ UNCHANGED setupErrors

\* connect: m.config.DSN is read after Stop() has set m.config to nil.
connectOpenPanics ==
    /\ connectors["open"] > 0
    /\ config = Nil
    /\ connectors' = Move(connectors, "open", "panic")
    /\ UNCHANGED <<config, tickChan, collectionChan, conn, connected,
                   connectedChan, mysqlStatus, mysqlStopChan, mysqlDoneChan,
                   runners, callerPc, result, starts, failures, dbOpen, ticks,
                   collLen>>
    /\ OnlyCollector
    /\ UNCHANGED setupErrors

\* connect: sql.Open and db.Ping succeed; m.conn = db.
connectOpenSucceeds ==
    /\ connectors["open"] > 0
    /\ config # Nil
    /\ conn' = "open"
    /\ dbOpen' = dbOpen + 1
    /\ connectors' = Move(connectors, "open", "success")
    /\ UNCHANGED <<config, tickChan, collectionChan, connected, connectedChan,
                   mysqlStatus, mysqlStopChan, mysqlDoneChan, runners,
                   callerPc, result, starts, failures, ticks, collLen>>
    /\ OnlyCollector
    /\ UNCHANGED setupErrors

\* connect: m.backoff.Success().
connectSuccess ==
    /\ connectors["success"] > 0
    /\ SuccessCall
    /\ connectors' = Move(connectors, "success", "status")
    /\ UNCHANGED <<config, tickChan, collectionChan, conn, connected,
                   connectedChan, mysqlStatus, mysqlStopChan, mysqlDoneChan,
                   runners, callerPc, result, starts, failures, dbOpen, ticks,
                   collLen>>
    /\ UNCHANGED <<monitorVars, runVars, lockVars>>
    /\ UNCHANGED setupErrors

\* The setup commands ending the attempt when one of them fails: the
\* connection is closed and the loop goes on.
connectStatusAborts(ok) ==
    /\ connectors["status"] > 0
    /\ IF config = Nil
         THEN /\ connectors' = Move(connectors, "status", "panic")
              /\ UNCHANGED <<mysqlStatus, setupErrors, conn, dbOpen>>
         ELSE IF ok
           THEN /\ connectors' = Move(connectors, "status", "send")
                /\ mysqlStatus' = "Connected"
                /\ setupErrors' = FALSE
                /\ UNCHANGED <<conn, dbOpen>>
           ELSE /\ connectors' = Move(connectors, "status", "test")
                /\ setupErrors' = TRUE
                /\ conn' = Nil
                /\ dbOpen' = dbOpen - 1
                /\ UNCHANGED mysqlStatus
    /\ UNCHANGED <<config, tickChan, collectionChan, connected,
                   connectedChan, mysqlStopChan, mysqlDoneChan, runners,
                   callerPc, result, starts, failures, ticks, collLen>>
    /\ OnlyCollector

\* connect: the setup commands, all of them successful (ok) or not; an
\* error is only logged.  Then the status becomes "Connected".
\* m.config.InnoDB is read: a panic when Stop() has set m.config to nil.
connectStatus(ok) ==
    /\ connectors["status"] > 0
    /\ IF config = Nil
         THEN /\ connectors' = Move(connectors, "status", "panic")
              /\ UNCHANGED <<mysqlStatus, setupErrors>>
         ELSE /\ connectors' = Move(connectors, "status", "send")
              /\ mysqlStatus' = "Connected"
              /\ setupErrors' = ~ok
    /\ UNCHANGED <<config, tickChan, collectionChan, conn, connected,
                   connectedChan, mysqlStopChan, mysqlDoneChan, runners,
                   callerPc, result, starts, failures, dbOpen, ticks, collLen>>
    /\ OnlyCollector

\* connect: m.connectedChan <- true, waiting while the channel is full.
connectSend ==
    /\ connectors["send"] > 0
    /\ Len(connectedChan) < ConnectedChanSize
    /\ connectedChan' = Append(connectedChan, TRUE)
    /\ connectors' = Move(connectors, "send", "test")
    /\ UNCHANGED <<config, tickChan, collectionChan, conn, connected,
                   mysqlStatus, mysqlStopChan, mysqlDoneChan, runners,
                   callerPc, result, starts, failures, dbOpen, ticks, collLen>>
    /\ OnlyCollector
    /\ UNCHANGED setupErrors

\* The ticker offers a tick on a tick channel.
SendTick(c) ==
    /\ c \notin ticks
    /\ ticks' = ticks \cup {c}
    /\ UNCHANGED <<config, tickChan, collectionChan, conn, connected,
                   connectedChan, mysqlStatus, mysqlStopChan, mysqlDoneChan,
                   runners, connectors, callerPc, result, starts, failures,
                   dbOpen, collLen>>
    /\ OnlyCollector
    /\ UNCHANGED setupErrors

\* The aggregator receives a collection from a collection channel.
RecvCollection(c) ==
    /\ collLen[c] > 0
    /\ collLen' = [collLen EXCEPT ![c] = @ - 1]
    /\ UNCHANGED <<config, tickChan, collectionChan, conn, connected,
                   connectedChan, mysqlStatus, mysqlStopChan, mysqlDoneChan,
                   runners, connectors, callerPc, result, starts, failures,
                   dbOpen, ticks>>
    /\ OnlyCollector
    /\ UNCHANGED setupErrors

\* The connection of a connected collector is lost and the loop is told so:
\* false is sent on the connected channel.
ConnectionLost ==
    /\ connected
    /\ conn = "open"
    /\ Len(connectedChan) < ConnectedChanSize
    /\ connectedChan' = Append(connectedChan, FALSE)
    /\ UNCHANGED <<config, tickChan, collectionChan, conn, connected,
                   mysqlStatus, mysqlStopChan, mysqlDoneChan, runners,
                   connectors, callerPc, result, starts, failures, dbOpen,
                   ticks, collLen, setupErrors>>
    /\ OnlyCollector

\* The process is alive: no goroutine has panicked.
Alive == connectors["panic"] = 0

CollectorNext ==
    \/ \E a \in StartArgs : Alive /\ CollectorStart(a)
    \/ Alive /\ CollectorStop
    \/ Alive /\ CollectorStopReturn
    \/ Alive /\ mysqlRunSpawn
    \/ Alive /\ mysqlRunTick
    \/ Alive /\ mysqlRunSend
    \/ Alive /\ mysqlRunSendTimeout
    \/ Alive /\ mysqlRunNoMetrics
    \/ Alive /\ mysqlRunConnected
    \/ Alive /\ mysqlRunStop
    \/ Alive /\ mysqlRunDeferred
    \/ Alive /\ mysqlRunDone
    \/ Alive /\ connectClose
    \/ Alive /\ connectTest
    \/ Alive /\ connectWait
    \/ Alive /\ connectSleep
    \/ Alive /\ connectOpenFails
    \/ Alive /\ connectOpenPanics
    \/ Alive /\ connectOpenSucceeds
    \/ Alive /\ connectSuccess
    \/ \E ok \in BOOLEAN : Alive /\ connectStatus(ok)
    \/ Alive /\ connectSend
    \/ \E c \in TickChans : SendTick(c)
    \/ \E c \in CollChans : RecvCollection(c)

Init ==
    /\ BackoffInit
    /\ MonitorInit
    /\ RunInit
    /\ CollectorInit
    /\ LockInit
    /\ op = "New"

Next == BackoffNext \/ MonitorNext \/ RunNext \/ CollectorNext

Spec == Init /\ [][Next]_vars

\* One Backoff on its own.
SpecBackoff == Init /\ [][BackoffNext]_vars

\* One Monitor on its own.
SpecMonitor == Init /\ [][MonitorNext]_vars

\* The Monitor with nobody reading the subscriber channels or the global
\* stream.
NoReadersNext ==
    \/ \E dsn \in DSNs : Add(dsn)
    \/ GlobalSubscribe
    \/ \E dsn \in DSNs : \E c \in 1..(nextHandle - 1) : Remove(dsn, c)
    \/ Check

SpecNoReaders == Init /\ [][NoReadersNext]_vars

\* The Monitor with callers that subscribe and read but never remove a
\* subscriber.
PollingNext ==
    \/ \E dsn \in DSNs : Add(dsn)
    \/ GlobalSubscribe
    \/ Check
    \/ \E h \in Handles : Recv(h)
    \/ GlobalRecv

SpecPolling == Init /\ [][PollingNext]_vars

\* The registry with its mutex.
SpecLocked == Init /\ [][LockedNext]_vars

SpecCollector == Init /\ [][CollectorNext]_vars

\* The collector with connections that may be lost.
ReconnectNext == CollectorNext \/ (Alive /\ ConnectionLost)

SpecReconnect == Init /\ [][ReconnectNext]_vars

SpecRun == Init /\ [][RunNext]_vars

\* The steps of the goroutine of run other than the cases of its select.
mysqlRunStep ==
    /\ Alive
    /\ \/ mysqlRunSpawn
       \/ mysqlRunSend
       \/ mysqlRunSendTimeout
       \/ mysqlRunNoMetrics
       \/ mysqlRunDeferred
       \/ mysqlRunDone

\* The steps of the goroutines of connect.
connectStep ==
    /\ Alive
    /\ \/ connectClose
       \/ connectTest
       \/ connectWait
       \/ connectSleep
       \/ connectOpenFails
       \/ connectOpenPanics
       \/ connectOpenSucceeds
       \/ connectSuccess
       \/ \E ok \in BOOLEAN : connectStatus(ok)
       \/ connectSend

\* The goroutines of run and of connect are scheduled, the 500 ms timer of
\* the send fires, the sleep of connect ends, and select takes a case that
\* stays ready.  The callers, the ticker and the reader of the collection
\* channel owe nothing: the collections may stay in the channel for ever.
SpecCollectorFair ==
    /\ Init
    /\ [][CollectorNext]_vars
    /\ WF_vars(mysqlRunStep)
    /\ WF_vars(Alive /\ mysqlRunTick)
    /\ WF_vars(Alive /\ mysqlRunConnected)
    /\ WF_vars(connectStep)

\* The goroutine of run is scheduled and every Check pass ends; the caller
\* blocked in Wait() is woken when the done signal is there; select chooses
\* at random among its ready cases, so a stop signal that is ready every
\* time the select is entered is taken in the end.
SpecRunFair ==
    /\ Init
    /\ [][LifecycleNext]_vars
    /\ WF_vars(runStep)
    /\ WF_vars(StopReturn)
    /\ SF_vars(runSelectStop)

(***************************************************************************)
(* Properties of pct.Backoff, checked under SpecBackoff.                   *)
(***************************************************************************)

\* The waits of calls 0 through 6 of a fresh Backoff.
FirstWaits == <<0, 1, 3, 7, 15, 31, 63>>

\* C1: on a Backoff on which Success() was never called, the k-th Wait()
\* call, for k = 1..7 (calls 0 through 6), returns FirstWaits[k] seconds:
\* 0, 1, 3, 7, 15, 31 and 63, in that order.
C1_FirstSevenWaits ==
    (lastSuccess = ZeroTime /\ waitCalls \in 1..7)
        => lastWait = FirstWaits[waitCalls]

C1_Witness ==
    /\ lastSuccess = ZeroTime
    /\ op = "Wait"
    /\ waitCalls = 7
    /\ lastWait = 63

\* C2: the attempt counter is always within 0..7, and a Wait() call made
\* when the counter is saturated (seven calls were made without a reset)
\* returns d seconds with 90 <= d < 180 and leaves the counter at 7.
C2_PlateauBelow180 ==
    [][ /\ try' \in 0..7
        /\ (try = 7 /\ op' = "Wait") => (lastWait' \in 90..179 /\ try' = 7)
      ]_vars

\* C3: a Success() call made at least resetAfter after the recorded success
\* sets the attempt counter to 0 and records the time of the call, whatever
\* the counter was.
C3_ResetAfterWindow ==
    [][ (op' = "Success" /\ lastSuccess # ZeroTime
            /\ now >= lastSuccess + ResetAfter)
          => (try' = 0 /\ lastSuccess' = now)
      ]_vars

\* C4: the first Success() call on an instance records the time of the call
\* and leaves the attempt counter as it was.
C4_FirstSuccessKeepsTry ==
    [][ (op' = "Success" /\ lastSuccess = ZeroTime)
          => (try' = try /\ lastSuccess' = now /\ lastSuccess' # ZeroTime)
      ]_vars

C4_Witness ==
    /\ op = "Success"
    /\ lastSuccess = now
    /\ try = 3
    /\ lastWait = 3

\* C5: a Success() call made less than resetAfter after the recorded success
\* changes neither the attempt counter nor the recorded success time.
C5_SuccessWithinWindow ==
    [][ (op' = "Success" /\ lastSuccess # ZeroTime
            /\ now < lastSuccess + ResetAfter)
          => (try' = try /\ lastSuccess' = lastSuccess)
      ]_vars

C5_Witness ==
    /\ op = "Success"
    /\ lastSuccess # ZeroTime
    /\ lastSuccess < now
    /\ now < lastSuccess + ResetAfter
    /\ try > 0

\* C6: the attempt counter decreases only in a Success() call that sets it
\* to 0 and is made at least resetAfter after the recorded success; Wait()
\* never decreases it.
C6_TryOnlyResetsAfterWindow ==
    [][ /\ try' < try
          => /\ op' = "Success"
             /\ try' = 0
             /\ lastSuccess # ZeroTime
             /\ now >= lastSuccess + ResetAfter
        /\ op' = "Wait" => try' >= try
      ]_vars

C6_Witness ==
    /\ op = "Wait"
    /\ try = 7
    /\ waitCalls = MaxWaitCalls
    /\ lastSuccess # ZeroTime
    /\ now >= lastSuccess + ResetAfter

(***************************************************************************)
(* Properties of the Monitor's registry, checked under SpecMonitor.        *)
(***************************************************************************)

\* How many notifications for target t the global channel q holds.
Count(q, t) == Cardinality({i \in 1..Len(q) : q[i] = t})

\* C7: in every state reached by Add, Remove, GlobalSubscribe and Check in
\* any interleaving, a target has a record in the map if and only if at
\* least one subscriber channel is registered for it.
C7_RecordIffSubscriber ==
    \A d \in DSNs : d \in mysqlInstances <=> subscribers[d] # {}

C7_Witness ==
    /\ mysqlInstances = {"dsnB"}
    /\ openConn["dsnA"]
    /\ subscribers["dsnA"] = {}
    /\ subscribers["dsnB"] = {2}
    /\ lastUptime["dsnB"] # NoUptime

\* C8: Remove(t, h) when h is the only subscriber of t evicts t: t is not in
\* the map afterwards and a GlobalAdd for t fails with UnknownTargetError;
\* and a Check pass made while t is not in the map does not poll t: it
\* stores no fingerprint for t and sends no notification for t.
C8_LastRemoveEvicts ==
    [][ \A t \in DSNs :
          /\ \A h \in Handles :
               (Remove(t, h) /\ subscribers[t] = {h})
                 => /\ t \notin mysqlInstances'
                    /\ GlobalAddError(t)' = "UnknownTargetError"
          /\ (t \notin mysqlInstances /\ Check)
               => /\ lastUptime'[t] = NoUptime
                  /\ Count(globalChan', t) <= Count(globalChan, t)
      ]_vars

C8_Witness ==
    /\ nextHandle = 2
    /\ openConn["dsnA"]
    /\ mysqlInstances = {}
    /\ subscribers["dsnA"] = {}
    /\ GlobalAddError("dsnA") = "UnknownTargetError"

\* C9: when Add(t) is called for a target with no record and returns an
\* error (the connection could not be opened), it returns no channel and
\* leaves the map and every subscriber set as they were.
C9_FailedAddRegistersNothing ==
    [][ \A t \in DSNs :
          (Add(t) /\ t \notin mysqlInstances /\ ret'.err # "")
            => /\ ret'.h = NoHandle
               /\ mysqlInstances' = mysqlInstances
               /\ subscribers' = subscribers
      ]_vars

C9_Witness ==
    /\ ret.err = "ConnectError"
    /\ ret.h = NoHandle
    /\ mysqlInstances = {"dsnB"}
    /\ ~openConn["dsnA"]

\* C10: Remove(t, h) when h is the only subscriber of t leaves no connection
\* to t open.
C10_LastRemoveClosesConn ==
    [][ \A t \in DSNs : \A h \in Handles :
          (Remove(t, h) /\ subscribers[t] = {h}) => ~openConn'[t]
      ]_vars

\* Whether the read r[d] of target d succeeded and is lower than the
\* fingerprint stored by the previous successful poll of d.
Lower(d, r) ==
    /\ r[d] # ReadError
    /\ lastUptime[d] # NoUptime
    /\ r[d] < lastUptime[d]

\* The length of a subscriber channel after one non-blocking send.
AfterSend(n) == IF n < SubChanCap THEN n + 1 ELSE n

\* C11: a pass of Check stores every successful read as the target's
\* fingerprint, and sends exactly one notification to a subscriber of a
\* target exactly when the read is lower than the value stored by the
\* previous successful poll; a read that is equal or higher, or a first
\* read, sends nothing to the target's subscribers and puts no entry for the
\* target on the global stream.
C11_NotifyIffLower ==
    [][ \A r \in Readings :
          CheckPass(r) =>
            \A d \in mysqlInstances :
              /\ r[d] # ReadError => lastUptime'[d] = r[d]
              /\ r[d] = ReadError => lastUptime'[d] = lastUptime[d]
              /\ \A h \in subscribers[d] :
                   chanLen'[h] = IF Lower(d, r) THEN AfterSend(chanLen[h])
                                                ELSE chanLen[h]
              /\ ~Lower(d, r) => Count(globalChan', d) = Count(globalChan, d)
      ]_vars

C11_Witness ==
    /\ subscribers["dsnA"] = {1}
    /\ globalSubs = {}
    /\ lastUptime["dsnA"] = 0
    /\ chanLen[1] = 1
    /\ ret = NoCall

C13_EverySubscriberNotified ==
    [][ \A r \in Readings :
          CheckPass(r) =>
            \A d \in mysqlInstances :
              (Lower(d, r) /\ Cardinality(subscribers[d]) > 1) =>
                \A h \in subscribers[d] :
                  chanLen[h] < SubChanCap => chanLen'[h] = chanLen[h] + 1
      ]_vars

C13_Witness ==
    /\ subscribers["dsnA"] = {1, 2}
    /\ lastUptime["dsnA"] = 0
    /\ chanLen[1] = 1
    /\ chanLen[2] = 1

\* What a pass that is not held up by full queues leaves behind: every
\* target polled, a full subscriber channel still full, a channel with room
\* one longer, the global stream within its capacity.
PassCompleted(r) ==
    /\ \A d \in mysqlInstances :
         /\ lastUptime'[d] = StoredAfter(lastUptime[d], r[d])
         /\ \A h \in subscribers[d] :
              Lower(d, r) => chanLen'[h] = AfterSend(chanLen[h])
    /\ Len(globalChan') <= GlobalChanCap
    /\ Len(globalChan') >= Len(globalChan)

\* C14: in every state, also when subscriber channels and the global stream
\* are full and nobody reads them, a pass of Check can run to its end
\* whatever it reads: the notification that finds no room is dropped and
\* the remaining targets and subscribers are processed.
C14_CheckNeverBlocks ==
    \A r \in Readings :
      ENABLED ( /\ CheckPass(r)
                /\ PassCompleted(r)
                /\ UNCHANGED <<backoffVars, op, runVars, collectorVars,
                               lockVars>> )

C14_Witness ==
    /\ subscribers["dsnA"] = {1}
    /\ subscribers["dsnB"] = {2}
    /\ globalSubs = {"dsnA", "dsnB"}
    /\ chanLen[1] = SubChanCap
    /\ chanLen[2] = 0
    /\ Len(globalChan) = GlobalChanCap
    /\ lastUptime["dsnA"] = 1
    /\ lastUptime["dsnB"] = 1

\* C15: when the read of one target fails during a pass, the pass still
\* polls every other target: their reads are stored and their restarts
\* notified in that same pass, and no target and no subscriber is dropped
\* from the registry.
C15_ErrorDoesNotStopPass ==
    [][ \A r \in Readings :
          (CheckPass(r) /\ \E e \in mysqlInstances : r[e] = ReadError) =>
            /\ mysqlInstances' = mysqlInstances
            /\ subscribers' = subscribers
            /\ \A d \in mysqlInstances :
                 r[d] # ReadError =>
                   /\ lastUptime'[d] = r[d]
                   /\ Lower(d, r) =>
                        \A h \in subscribers[d] :
                          chanLen[h] < SubChanCap
                            => chanLen'[h] = chanLen[h] + 1
      ]_vars

C15_Witness ==
    /\ subscribers["dsnA"] = {1}
    /\ subscribers["dsnB"] = {2}
    /\ lastUptime["dsnA"] = NoUptime
    /\ lastUptime["dsnB"] = 0
    /\ chanLen[1] = 0
    /\ chanLen[2] = 1

\* C16: once the Monitor has been started, Stop returns only after the
\* goroutine of run has ended, whatever the number of targets: no pass of
\* Check begins once Stop has returned; and, every Check pass ending, a
\* Stop that waits does return.
C16_StopJoinsLoop ==
    /\ [](stopPc = "returned" => runPc = "exited")
    /\ [][ stopPc = "returned" =>
             /\ ~runChecking
             /\ \A r \in Readings : ~runCheck(r) ]_vars
    /\ (stopPc = "waiting" /\ runPc # "none") ~> (stopPc = "returned")

C16_Witness ==
    /\ stopPc = "returned"
    /\ runPc = "exited"
    /\ mysqlInstances = DSNs
    /\ \A d \in DSNs : lastUptime[d] # NoUptime

\* C17: with one Start and one Stop, once a Status() call has returned
\* "Stopped", no later Status() call returns "Checking" or "Idle".
C17_NoRunningAfterStopped ==
    [][ reported = "Stopped" => reported' \notin RunningStates ]_vars

C17_Witness ==
    /\ reported = "Stopped"
    /\ stopPc = "waiting"
    /\ runPc = "done"
    /\ ~logged

\* C18: after a panic inside a check the goroutine of run ends: the panic
\* is recovered, so the process goes on, the status becomes "Stopped" and
\* the done signal is sent, and a Stop waiting for it returns.
C18_PanicEndsLoopCleanly ==
    /\ [](runPc # "crashed")
    /\ [](logged => (runPc \in {"done", "exited"} /\ status = "Stopped"))
    /\ [][ (runPc = "done" /\ runPc' = "exited") => doneChan' ]_vars
    /\ (runPc = "panic") ~> (runPc = "exited" /\ status = "Stopped" /\ logged)
    /\ (logged /\ stopPc = "waiting") ~> (stopPc = "returned")

C18_Witness ==
    /\ logged
    /\ runPc = "exited"
    /\ status = "Stopped"
    /\ stopPc = "returned"
    /\ mysqlInstances # {}

\* C19: Start called while the collector has a config (it was started and
\* Stop has not returned since) returns ServiceIsRunningError and leaves the
\* config, the tick channel, the collection channel and the goroutines of
\* run and of connect as they were.
C19_StartWhileActiveFails ==
    [][ \A a \in StartArgs :
          (CollectorStart(a) /\ config # Nil) =>
            /\ result' = <<"Start", "ServiceIsRunningError">>
            /\ UNCHANGED <<config, tickChan, collectionChan, runners,
                           connectors>>
      ]_vars

C19_Witness ==
    /\ result = <<"Start", "ServiceIsRunningError">>
    /\ config = "cfgA"
    /\ tickChan = "tickA"
    /\ collectionChan = "collA"
    /\ Total(runners, RunPcs) = 1
    /\ connected

\* C20: Stop called while the collector has no config (never started, or
\* stopped) returns nil at once: the caller does not wait, the status is
\* not changed and no stop signal is sent.
C20_StopWhenStoppedIsNoOp ==
    [][ (CollectorStop /\ config = Nil) =>
          /\ result' = <<"Stop", Nil>>
          /\ callerPc' = "idle"
          /\ UNCHANGED <<config, mysqlStatus, mysqlStopChan, mysqlDoneChan,
                         runners, connectors>>
      ]_vars

C20_Witness ==
    /\ result = <<"Stop", Nil>>
    /\ starts = 0
    /\ callerPc = "idle"
    /\ mysqlStatus = ""
    /\ ~mysqlStopChan

(***************************************************************************)
(* Properties of the loops of the collector, checked under SpecCollector   *)
(* and, for what must happen in the end, under SpecCollectorFair.          *)
(***************************************************************************)

\* The goroutine of run has not reached its return.
LoopRunning == runners["spawn"] + runners["select"] + runners["send"]
                 + runners["nometrics"] > 0

\* C21: a send that times out drops the collection (the channel keeps what
\* it had) and puts the loop back at its select; the loop never stays in
\* the send, even when nobody ever receives from the collection channel;
\* and a tick offered on the tick channel of a running loop is taken in the
\* end, unless the loop stops first.
C21_TimeoutDropsAndLoopGoesOn ==
    /\ [][ mysqlRunSendTimeout =>
             /\ collLen' = collLen
             /\ runners'["select"] = runners["select"] + 1 ]_vars
    /\ (runners["send"] > 0) ~> (runners["send"] = 0)
    /\ (tickChan \in ticks /\ LoopRunning)
         ~> (tickChan \notin ticks \/ ~LoopRunning \/ ~Alive)

C21_Witness ==
    /\ runners["send"] > 0
    /\ collLen[collectionChan] = CollChanCap
    /\ tickChan \in ticks

\* C22: a tick taken while the connected flag is false is skipped: only the
\* tick is consumed, nothing is gathered, the collection channel and the
\* status stay as they were.  The flag becomes true only by the loop
\* receiving true from the connected channel, and a collection is gathered
\* or delivered only while the flag is true.
C22_NoTickHonouredBeforeConnected ==
    [][ /\ (mysqlRunTick /\ ~connected) =>
              /\ ticks' = ticks \ {tickChan}
              /\ UNCHANGED <<runners, collLen, mysqlStatus, conn, connected,
                             connectedChan, connectors>>
        /\ (~connected /\ connected') =>
              /\ mysqlRunConnected
              /\ Head(connectedChan) = TRUE
        /\ (runners'["send"] > runners["send"]) => connected
        /\ (\E c \in CollChans : collLen'[c] > collLen[c]) => connected
      ]_vars

C22_Witness ==
    /\ ~connected
    /\ runners["select"] > 0
    /\ tickChan \in ticks
    /\ conn = "open"
    /\ connectedChan = <<TRUE>>
    /\ collLen[collectionChan] = 0

(***************************************************************************)
(* Priority of the stop signal in the two loops.                           *)
(***************************************************************************)

\* C23: with the stop signal sent and the loop of the restart monitor at its
\* select, the loop does not go round to another Check, also when the
\* interval timer is ready too.
C23_StopBeatsTimer ==
    [][ (runPc = "select" /\ stopChan) => runPc' # "top" ]_vars

\* C24: with the stop signal sent and the loop of the collector at its
\* select, the loop takes no tick that it would honour: no collection is
\* gathered once the stop signal is pending.
C24_StopBeatsTick ==
    [][ (mysqlStopChan /\ runners["select"] > 0) =>
          /\ ~(mysqlRunTick /\ connected)
          /\ runners'["send"] <= runners["send"] ]_vars

(***************************************************************************)
(* Properties of the goroutines of connect.                                *)
(***************************************************************************)

\* C25: a loop that has been told of a lost connection is reconnected: as
\* long as the loop runs, after it has started its first goroutine of
\* connect, either it is connected over an open connection, or a goroutine
\* of connect is at work, or an event is waiting in the connected channel.
C25_LostConnectionIsReopened ==
    (/\ LoopRunning
     /\ runners["spawn"] = 0
     /\ Total(connectors, ConnectPcs) = 0
     /\ connectedChan = <<>>)
        => (connected /\ conn = "open")

\* C26: a failed open or probe changes nothing but the place of the
\* goroutine of connect, which is back at the test of its loop, and with no
\* connection installed the test leads to another Backoff wait; no goroutine
\* of run is touched.  A goroutine that announces has a connection
\* installed, adds one true to the connected channel and ends at the next
\* test, since an installed connection stays installed.  A goroutine that
\* waits gets to an installed connection in the end, unless the process
\* ends by the panic of a goroutine that reads the config Stop() has
\* cleared.
C26_ConnectorNeverGivesUp ==
    /\ [][ connectOpenFails =>
             /\ connectors'["test"] = connectors["test"] + 1
             /\ Total(connectors', ConnectPcs) = Total(connectors, ConnectPcs)
             /\ Alive'
             /\ UNCHANGED <<conn, config, runners, connected, connectedChan,
                            mysqlStatus, mysqlStopChan, mysqlDoneChan>> ]_vars
    /\ [][ (connectTest /\ conn = Nil) =>
             connectors'["wait"] = connectors["wait"] + 1 ]_vars
    /\ [][ connectSend =>
             /\ conn # Nil
             /\ connectedChan' = Append(connectedChan, TRUE)
             /\ connectors'["test"] = connectors["test"] + 1 ]_vars
    /\ [][ conn # Nil => conn' # Nil ]_vars
    /\ [][ (connectTest /\ conn # Nil) =>
             Total(connectors', ConnectPcs)
               = Total(connectors, ConnectPcs) - 1 ]_vars
    /\ (connectors["wait"] > 0) ~> (conn # Nil \/ ~Alive)

C26_Witness ==
    /\ failures > 0
    /\ waitCalls = failures + 1
    /\ connectors["open"] > 0
    /\ conn = Nil
    /\ LoopRunning

\* C27: a goroutine of connect gets to an open attempt only from the sleep,
\* and to the sleep only by one call of Wait(); Wait() is called nowhere
\* else in the collector.  Nothing but Success() lowers the attempt counter:
\* not the failed attempt, not the test of the loop, not the sleep, and
\* Wait() never does.  Success() is called only by a goroutine that has
\* just installed its connection, once, and only after it does the
\* goroutine go on to the setup commands and to the announcement.
C27_BackoffCallsOfConnect ==
    [][ /\ (connectors'["open"] > connectors["open"]) => connectSleep
        /\ (connectors'["sleep"] > connectors["sleep"]) =>
              (connectWait /\ waitCalls' = waitCalls + 1)
        /\ (waitCalls' # waitCalls) => connectWait
        /\ (try' < try) => connectSuccess
        /\ connectOpenFails => UNCHANGED backoffVars
        /\ (connectors'["success"] > connectors["success"]) =>
              (connectOpenSucceeds /\ conn' = "open")
        /\ (lastSuccess' # lastSuccess) => connectSuccess
        /\ connectSuccess => (conn # Nil /\ op' = "Success")
        /\ (connectors'["status"] > connectors["status"]) => connectSuccess
        /\ (connectors'["send"] > connectors["send"]) =>
              (connectors'["status"] < connectors["status"])
        /\ connectSend => connectors'["send"] < connectors["send"]
      ]_vars

C27_Witness ==
    /\ failures > 0
    /\ waitCalls = failures + 1
    /\ try = waitCalls
    /\ op = "Success"
    /\ conn = "open"
    /\ connectors["status"] > 0
    /\ connectedChan = <<>>
    /\ ~connected

\* C28: whether the setup commands succeed or fail, the goroutine of
\* connect keeps the connection it has installed, leaves it open, sets the
\* status "Connected" and goes on to announce; a failure is only logged.
C28_SetupFailureKeepsConnection ==
    [][ \A ok \in BOOLEAN :
          (connectStatus(ok) /\ config # Nil) =>
            /\ UNCHANGED <<conn, dbOpen, connectedChan, connected>>
            /\ mysqlStatus' = "Connected"
            /\ connectors'["send"] = connectors["send"] + 1
            /\ Total(connectors', ConnectPcs) = Total(connectors, ConnectPcs)
            /\ setupErrors' = ~ok
      ]_vars

C28_Witness ==
    /\ setupErrors
    /\ conn = "open"
    /\ dbOpen = 1
    /\ connected
    /\ mysqlStatus = "Ready"
    /\ Total(connectors, ConnectPcs) = 0

(***************************************************************************)
(* Stop() of the collector and the goroutines of connect.                  *)
(***************************************************************************)

\* Stop() has returned from a started collector and Start has not been
\* called since.
StoppedAfterRun ==
    /\ result = <<"Stop", Nil>>
    /\ callerPc = "idle"
    /\ config = Nil
    /\ starts > 0

\* C29: once Stop() has returned, and until the next Start, no goroutine of
\* run is left and the status is "Stopped".
C29_StoppedStaysStopped ==
    StoppedAfterRun =>
        /\ Total(runners, RunPcs) = 0
        /\ mysqlStatus = "Stopped"

\* C30: once Stop() has returned and every goroutine of run and of connect
\* has ended, no connection opened by the collector is still open.
C30_NoConnectionLeftOpen ==
    (/\ StoppedAfterRun
     /\ Total(runners, RunPcs) = 0
     /\ Total(connectors, ConnectPcs) = 0)
        => dbOpen = 0

(***************************************************************************)
(* The collections sent downstream.                                        *)
(***************************************************************************)

\* C31: there is at most one goroutine of run and so at most one collection
\* on its way.  A collection is on its way only by an honoured tick, which
\* consumes one tick and is taken only when none is on its way.  The
\* collection channel grows only by the send, by one collection, and the
\* send ends the collection's way; so does the timeout, which leaves the
\* channel as it was: the collection is gone when the next tick is taken.
C31_OneSendPerHonouredTick ==
    /\ [](Total(runners, RunPcs) <= 1)
    /\ [][ /\ (runners'["send"] > runners["send"]) =>
                 /\ mysqlRunTick
                 /\ connected
                 /\ runners["send"] = 0
                 /\ runners'["send"] = 1
                 /\ tickChan \in ticks /\ tickChan \notin ticks'
           /\ (\E c \in CollChans : collLen'[c] > collLen[c]) =>
                 /\ mysqlRunSend
                 /\ collLen' = [collLen EXCEPT ![collectionChan] = @ + 1]
                 /\ runners'["send"] = runners["send"] - 1
           /\ mysqlRunSendTimeout =>
                 /\ collLen' = collLen
                 /\ runners'["send"] = runners["send"] - 1
           /\ mysqlRunTick => runners["send"] = 0
        ]_vars

C31_Witness ==
    /\ runners["select"] = 1
    /\ connected
    /\ mysqlStatus = "Ready"
    /\ collLen[collectionChan] = CollChanCap
    /\ tickChan \in ticks
    /\ ~mysqlStopChan

(***************************************************************************)
(* Accesses to the fields of the collector.  The collector has no lock;    *)
(* two accesses are ordered only by a channel operation between them, and  *)
(* then the later one is not yet enabled when the earlier one is.          *)
(***************************************************************************)

\* Stop() is about to assign m.config = nil.
ConfigWriterReady == callerPc = "waiting" /\ mysqlDoneChan

\* A goroutine of connect is about to read m.config (the DSN, the setup
\* options).
ConfigReaderReady == connectors["open"] + connectors["status"] > 0

\* A goroutine of connect is about to assign m.conn = db.
ConnWriterReady == connectors["open"] > 0 /\ config # Nil

\* The deferred function of run is about to read m.conn.
ConnReaderReady == runners["return"] > 0

\* C32: no state has a write of m.config or of m.conn ready in one thread
\* together with a read of the same field ready in another thread.
C32_NoUnorderedAccess ==
    /\ ~(Alive /\ ConfigWriterReady /\ ConfigReaderReady)
    /\ ~(Alive /\ ConnWriterReady /\ ConnReaderReady)

(***************************************************************************)
(* The global stream and the registry operations.                          *)
(***************************************************************************)

\* C33: once GlobalSubscribe has put targets on the global stream, a pass of
\* Check that finds a registered target restarted, and no other, with room
\* in the global channel, puts one entry with that target's identity on
\* the global channel, whenever the target was added.
C33_RestartOfAnyTargetOnGlobalChan ==
    [][ \A r \in Readings : \A d \in mysqlInstances :
          (/\ globalSubs # {}
           /\ Lower(d, r)
           /\ \A e \in mysqlInstances \ {d} : ~Lower(e, r)
           /\ Len(globalChan) < GlobalChanCap
           /\ CheckPass(r))
            => Count(globalChan', d) = Count(globalChan, d) + 1
      ]_vars

\* C34: Remove of one subscriber channel of a target that has others left
\* removes that channel only: the target keeps its record and its other
\* channels, and is on the global stream after the call exactly if it was
\* before.
C34_RemoveOfOneHandleKeepsTheRest ==
    [][ \A dsn \in DSNs : \A c \in Handles :
          (/\ dsn \in mysqlInstances
           /\ c \in subscribers[dsn]
           /\ subscribers[dsn] \ {c} # {}
           /\ Remove(dsn, c))
            => /\ dsn \in mysqlInstances'
               /\ subscribers'[dsn] = subscribers[dsn] \ {c}
               /\ (dsn \in globalSubs') <=> (dsn \in globalSubs)
      ]_vars

\* C35: while a pass of Check holds the mutex for reading, nobody holds it
\* for writing, no registry call is past its Lock(), every target in the
\* map has a subscriber, and no step changes the map, the subscriber sets
\* or the global stream; the pass keeps the mutex until it has visited
\* every target; and a registry call that holds the mutex holds it alone.
C35_NoRegistryChangeDuringCheck ==
    /\ [](rwReaders > 0 =>
            /\ ~rwWriter
            /\ callPc = NoOp
            /\ visiting \subseteq mysqlInstances
            /\ \A d \in mysqlInstances : subscribers[d] # {})
    /\ [](callPc # NoOp => (rwWriter /\ rwReaders = 0))
    /\ [][ /\ rwReaders > 0 =>
                UNCHANGED <<mysqlInstances, subscribers, globalSubs>>
           /\ (rwReaders > 0 /\ visiting # {}) => rwReaders' > 0
         ]_vars

C35_Witness ==
    /\ rwReaders > 0
    /\ visiting = {"dsnB"}
    /\ mysqlInstances = {"dsnA", "dsnB"}
    /\ 1 \in subscribers["dsnA"]
    /\ callPc = NoOp
    /\ ~ENABLED Lock("Remove", "dsnA", 1)

====
